---- MODULE Spec2Model ----
(***************************************************************************)
(* memory.lol `manage` binary (src/bin/manage.rs): the import commands     *)
(* (ImportMulti, ImportJson, ImportMentions) merging (user id, screen      *)
(* name, dates) observations into the store, and the read commands         *)
(* (LookupId, Stats).                                                      *)
(*                                                                         *)
(* Text is a sequence of one-character strings, so that split and parse    *)
(* work on characters as the Rust code does.  A date (chrono NaiveDate) is *)
(* its day number counted from 1970-01-01.  An unsigned 64-bit value is    *)
(* its canonical decimal numeral (no sign, no leading zero), which keeps   *)
(* the full 64-bit width.                                                  *)
(***************************************************************************)
EXTENDS Integers, Sequences, FiniteSets, TLC

VARIABLES
    store,    \* the database: pair <<user id, screen name>> -> set of dates
    pc,       \* "idle": no command runs; "multi": ImportMulti is between two
              \* lines; "read": ImportMulti has read a line (SpecLine)
    lines,    \* the lines the running or last ImportMulti has read so far
    result,   \* the running or last command and how it ended
    calls,    \* the insert_pair calls of the running or last import command
    out,      \* the lines the last LookupId or Stats printed
    start,    \* the store as it was when the running or last import started
    merged,   \* every insert_pair call made so far, by any command
    session,  \* the Session of the last import, see NoSession
    nsteps    \* lines and files imported so far (at most MaxSteps)

vars == <<store, pc, lines, result, calls, out, start, merged, session, nsteps>>

-----------------------------------------------------------------------------
(* Text helpers                                                            *)

Digits == <<"0", "1", "2", "3", "4", "5", "6", "7", "8", "9">>

IsDigit(c) == \E i \in 1..10 : Digits[i] = c

DigitVal(c) == (CHOOSE i \in 1..10 : Digits[i] = c) - 1

\* The byte of a character (ASCII), the key of Rust's String ordering.
Byte(c) ==
    CASE c = "+" -> 43 [] c = "," -> 44 [] c = "-" -> 45
      [] IsDigit(c) -> 48 + DigitVal(c)
      [] c = "a" -> 97 [] c = "b" -> 98 [] c = "c" -> 99 [] c = "e" -> 101
      [] c = "i" -> 105 [] c = "l" -> 108 [] c = "o" -> 111 [] c = "x" -> 120
      [] c = "B" -> 66

\* Rust's Ord for String: lexicographic by bytes, a proper prefix first.
RECURSIVE StrLess(_, _)
StrLess(a, b) ==
    IF b = <<>> THEN FALSE
    ELSE IF a = <<>> THEN TRUE
    ELSE IF Byte(Head(a)) # Byte(Head(b)) THEN Byte(Head(a)) < Byte(Head(b))
    ELSE StrLess(Tail(a), Tail(b))

\* str::split(','): the fields between the commas; an empty text gives one
\* empty field, a trailing comma a trailing empty field.
RECURSIVE SplitFrom(_, _)
SplitFrom(s, cur) ==
    IF s = <<>> THEN <<cur>>
    ELSE IF Head(s) = "," THEN <<cur>> \o SplitFrom(Tail(s), <<>>)
    ELSE SplitFrom(Tail(s), Append(cur, Head(s)))

split(s) == SplitFrom(s, <<>>)

RECURSIVE StripZeros(_)
StripZeros(ds) ==
    IF Len(ds) > 1 /\ Head(ds) = "0" THEN StripZeros(Tail(ds)) ELSE ds

AllDigits(ds) == \A i \in 1..Len(ds) : IsDigit(ds[i])

\* Numeric order of two canonical numerals.
RECURSIVE DigitsLeq(_, _)
DigitsLeq(a, b) ==
    IF Len(a) # Len(b) THEN Len(a) < Len(b)
    ELSE IF a = <<>> THEN TRUE
    ELSE IF Head(a) # Head(b) THEN DigitVal(Head(a)) < DigitVal(Head(b))
    ELSE DigitsLeq(Tail(a), Tail(b))

U64Max == <<"1","8","4","4","6","7","4","4","0","7","3","7","0","9","5","5","1","6","1","5">>
I64Max == <<"9","2","2","3","3","7","2","0","3","6","8","5","4","7","7","5","8","0","7">>
I64MinMag == <<"9","2","2","3","3","7","2","0","3","6","8","5","4","7","7","5","8","0","8">>

ParseU64NoOverflow(s) ==
    LET body == IF s # <<>> /\ Head(s) = "+" THEN Tail(s) ELSE s
        ok == body # <<>> /\ AllDigits(body)
    IN  [ok |-> ok, val |-> IF ok THEN StripZeros(body) ELSE <<>>]

\* str::parse::<u64>(): an optional '+', then one or more decimal digits,
\* the value at most 2^64 - 1.  No '-', no blanks.
ParseU64(s) ==
    LET body == IF s # <<>> /\ Head(s) = "+" THEN Tail(s) ELSE s
        ok == /\ body # <<>>
              /\ AllDigits(body)
              /\ DigitsLeq(StripZeros(body), U64Max)
    IN  [ok |-> ok, val |-> IF ok THEN StripZeros(body) ELSE <<>>]

\* str::parse::<i64>(): an optional '+' or '-', then one or more decimal
\* digits, the value within -2^63 .. 2^63 - 1.
ParseI64(s) ==
    LET signed == s # <<>> /\ Head(s) \in {"+", "-"}
        neg == s # <<>> /\ Head(s) = "-"
        body == IF signed THEN Tail(s) ELSE s
        ok == /\ body # <<>>
              /\ AllDigits(body)
              /\ DigitsLeq(StripZeros(body), IF neg THEN I64MinMag ELSE I64Max)
    IN  [ok |-> ok, neg |-> ok /\ neg,
         mag |-> IF ok THEN StripZeros(body) ELSE <<>>]

-----------------------------------------------------------------------------
(* Dates                                                                   *)

SecsPerDay == 86400
\* chrono's NaiveDate range (-262144-01-01 .. 262143-12-31) in epoch days.
MinDay == -96465658
MaxDay == 95026601

Panicked == [ok |-> FALSE, day |-> 0]

\* <<quotient, remainder>> of a canonical numeral divided by SecsPerDay,
\* by long division, digit by digit.
RECURSIVE DivSecs(_, _, _)
DivSecs(ds, q, r) ==
    IF ds = <<>> THEN <<q, r>>
    ELSE LET n == r * 10 + DigitVal(Head(ds))
         IN  DivSecs(Tail(ds), q * 10 + (n \div SecsPerDay), n % SecsPerDay)

\* Utc.timestamp(value, 0).naive_utc().date(): the UTC calendar day holding
\* the second `value` (floor division, also below zero); not ok (a panic:
\* timestamp unwraps a None) when the day is outside chrono's range.  A
\* magnitude of more than 13 digits is at least 10^13 s, beyond MaxDay.
ToDate(v) ==
    IF Len(v.mag) > 13 THEN Panicked
    ELSE LET qr == DivSecs(v.mag, 0, 0)
             day == IF ~v.neg THEN qr[1]
                    ELSE IF qr[2] = 0 THEN -qr[1] ELSE -qr[1] - 1
         IN  IF day < MinDay \/ day > MaxDay THEN Panicked
             ELSE [ok |-> TRUE, day |-> day]

\* Two decimal digits of n (0..99).
TwoDigits(n) == <<Digits[(n \div 10) + 1], Digits[(n % 10) + 1]>>

RECURSIVE NatDigits(_)
NatDigits(n) ==
    IF n < 10 THEN <<Digits[n + 1]>>
    ELSE Append(NatDigits(n \div 10), Digits[(n % 10) + 1])

RECURSIVE PadZeros(_, _)
PadZeros(ds, w) == IF Len(ds) >= w THEN ds ELSE PadZeros(<<"0">> \o ds, w)

\* <<year, month, day>> of an epoch day (proleptic Gregorian calendar).
CivilFromDays(days) ==
    LET z == days + 719468
        era == z \div 146097
        doe == z - era * 146097
        yoe == (doe - (doe \div 1460) + (doe \div 36524) - (doe \div 146096)) \div 365
        doy == doe - (365 * yoe + (yoe \div 4) - (yoe \div 100))
        mp == (5 * doy + 2) \div 153
        d == doy - ((153 * mp + 2) \div 5) + 1
        m == IF mp < 10 THEN mp + 3 ELSE mp - 9
        y == yoe + era * 400 + (IF m <= 2 THEN 1 ELSE 0)
    IN  <<y, m, d>>

\* NaiveDate::to_string(): YYYY-MM-DD, the year signed and at least four
\* digits wide outside 0..9999.
DateToString(days) ==
    LET ymd == CivilFromDays(days)
        y == ymd[1]
        year == IF y >= 0 /\ y <= 9999 THEN PadZeros(NatDigits(y), 4)
                ELSE IF y < 0 THEN <<"-">> \o PadZeros(NatDigits(-y), 4)
                ELSE <<"+">> \o PadZeros(NatDigits(y), 4)
    IN  year \o <<"-">> \o TwoDigits(ymd[2]) \o <<"-">> \o TwoDigits(ymd[3])

-----------------------------------------------------------------------------
(* The body of ImportMulti's loop                                          *)

Last(q) == q[Len(q)]

Range(q) == {q[i] : i \in 1..Len(q)}

RECURSIVE Insert(_, _)
Insert(x, q) ==
    IF q = <<>> THEN <<x>>
    ELSE IF x <= Head(q) THEN <<x>> \o q
    ELSE <<Head(q)>> \o Insert(x, Tail(q))

RECURSIVE SortAsc(_)
SortAsc(q) == IF q = <<>> THEN <<>> ELSE Insert(Head(q), SortAsc(Tail(q)))

\* dates.sort(): ascending.
sort(q) == SortAsc(q)

dedup_none(q) == q

\* dates.dedup(): drops every element equal to the one before it.
RECURSIVE dedup(_)
dedup(q) ==
    IF Len(q) < 2 THEN q
    ELSE IF q[1] = q[2] THEN dedup(Tail(q))
    ELSE <<Head(q)>> \o dedup(Tail(q))

ts_parts_skip_first(parts) == SubSeq(parts, 4, Len(parts))

\* &parts[2..]: the fields after the user id and the screen name.
ts_parts(parts) == SubSeq(parts, 3, Len(parts))

\* The for loop over the timestamp fields: it stops at the first field that
\* is no i64 (InvalidImportLine) or whose second is out of chrono's range
\* (panic), whichever comes first; else the dates in the fields' order.
RECURSIVE parse_dates(_, _)
parse_date(fields, dates, value, date) ==
    IF ~value.ok THEN [kind |-> "Err", dates |-> dates]
    ELSE IF ~date.ok THEN [kind |-> "Panic", dates |-> dates]
    ELSE parse_dates(Tail(fields), Append(dates, date.day))

parse_dates(fields, dates) ==
    IF fields = <<>> THEN [kind |-> "Ok", dates |-> dates]
    ELSE parse_date(fields, dates, ParseI64(Head(fields)),
                    ToDate(ParseI64(Head(fields))))

NoCall == [user_id |-> <<>>, screen_name |-> <<>>, dates |-> <<>>]

Outcome(kind, call) == [kind |-> kind, call |-> call]

Call(user_id, screen_name, dates) ==
    Outcome("Call", [user_id |-> user_id, screen_name |-> screen_name,
                     dates |-> dates])

insert_line_needs_dates(parts, user_id, r) ==
    IF Len(parts) < 3 THEN Outcome("Err", NoCall)
    ELSE IF r.kind # "Ok" THEN Outcome(r.kind, NoCall)
    ELSE Call(user_id, parts[2], dedup(sort(r.dates)))

\* The rest of the loop body once the user id is parsed: the screen name
\* must be there (parts.get(1)); the dates are parsed, sorted, deduplicated
\* and passed to insert_pair.
insert_line(parts, user_id, r) ==
    IF Len(parts) < 2 THEN Outcome("Err", NoCall)
    ELSE IF r.kind # "Ok" THEN Outcome(r.kind, NoCall)
    ELSE Call(user_id, parts[2], dedup(sort(r.dates)))

parse_line(parts, user_id) ==
    IF ~user_id.ok THEN Outcome("Err", NoCall)
    ELSE insert_line(parts, user_id.val, parse_dates(ts_parts(parts), <<>>))

\* One iteration of ImportMulti's loop on the line l: the insert_pair call it
\* makes ("Call"), or how it ends the command: Err(InvalidImportLine(l)) or
\* a panic.  split gives at least one field, so parts.get(0) is never None.
loop_body(l) == parse_line(split(l), ParseU64(Head(split(l))))

-----------------------------------------------------------------------------
(* The store (memory_lol::lookup::Lookup) and the import session           *)
(* (memory_lol::import::Session), as the specification describes them.     *)
(* A store maps each pair <<user id, screen name>> it holds to its set of  *)
(* dates.  Store failures (the opaque store errors) are not modelled.      *)

EmptyStore == [p \in {} |-> {}]

DatesOf(db, p) == IF p \in DOMAIN db THEN db[p] ELSE {}

insert_pair_replace(db, user_id, screen_name, dates) ==
    [p \in DOMAIN db \cup {<<user_id, screen_name>>} |->
        IF p = <<user_id, screen_name>> THEN Range(dates) ELSE db[p]]

\* insert_pair: the dates are united with those held for the pair.
insert_pair(db, user_id, screen_name, dates) ==
    [p \in DOMAIN db \cup {<<user_id, screen_name>>} |->
        IF p = <<user_id, screen_name>>
        THEN DatesOf(db, p) \cup Range(dates)
        ELSE db[p]]

RECURSIVE SetToSortedSeq(_)
SetToSortedSeq(S) ==
    IF S = {} THEN <<>>
    ELSE LET m == CHOOSE x \in S : \A y \in S : x <= y
         IN  <<m>> \o SetToSortedSeq(S \ {m})

\* lookup_by_user_id: every screen name held for the id, each with its
\* dates in ascending order.
lookup_by_user_id(db, id) ==
    [name \in {p[2] : p \in {q \in DOMAIN db : q[1] = id}} |->
        SetToSortedSeq(db[<<id, name>>])]

\* get_counts: (pair_count, user_id_count, screen_name_count).
get_counts(db) ==
    <<Cardinality(DOMAIN db),
      Cardinality({p[1] : p \in DOMAIN db}),
      Cardinality({p[2] : p \in DOMAIN db})>>

Undecodable == [decoded |-> FALSE, user_id |-> <<>>, screen_name |-> <<>>, ts |-> <<>>]

Raw(user_id, screen_name, ts) ==
    [decoded |-> TRUE, user_id |-> user_id, screen_name |-> screen_name, ts |-> ts]

\* The normalizer on one decoded record: the id a u64, the name not empty,
\* every timestamp a date, the dates sorted and without duplicates.
normalized(raw, user_id, r) ==
    IF ~raw.decoded \/ ~user_id.ok \/ raw.screen_name = <<>> \/ r.kind # "Ok"
    THEN [ok |-> FALSE, rec |-> NoCall]
    ELSE [ok |-> TRUE,
          rec |-> [user_id |-> user_id.val, screen_name |-> raw.screen_name,
                   dates |-> dedup(sort(r.dates))]]

normalize(raw) == normalized(raw, ParseU64(raw.user_id), parse_dates(raw.ts, <<>>))

loaded(recs) ==
    IF \A i \in 1..Len(recs) : recs[i].ok
    THEN [ok |-> TRUE, data |-> [i \in 1..Len(recs) |-> recs[i].rec]]
    ELSE [ok |-> FALSE, data |-> <<>>]

\* Session::load_json / Session::load_mentions: the whole input normalized,
\* or a failure when any record of it is malformed.
load(file) == loaded([i \in 1..Len(file) |-> normalize(file[i])])

\* Session::update under UpdateMode::Range: insert_pair for every record, in
\* the session's order.
RECURSIVE update(_, _)
update(db, data) ==
    IF data = <<>> THEN db
    ELSE update(insert_pair(db, Head(data).user_id, Head(data).screen_name,
                            Head(data).dates),
                Tail(data))

-----------------------------------------------------------------------------
(* Inputs                                                                  *)

MaxSteps == 2
MaxRecords == 2
MaxTs == 3

s42 == <<"4", "2">>
s7 == <<"7">>
alice == <<"a", "l", "i", "c", "e">>
bob == <<"b", "o", "b">>
t0 == <<"0">>
t86399 == <<"8", "6", "3", "9", "9">>
t86400 == <<"8", "6", "4", "0", "0">>
t172800 == <<"1", "7", "2", "8", "0", "0">>
t259200 == <<"2", "5", "9", "2", "0", "0">>
minus1 == <<"-", "1">>
plus7 == <<"+", "7">>
x == <<"x">>
U64Over == <<"1","8","4","4","6","7","4","4","0","7","3","7","0","9","5","5","1","6","1","6">>

\* The line whose comma-separated fields are `fields` (at least one).
RECURSIVE Join(_)
Join(fields) ==
    IF Len(fields) = 1 THEN fields[1]
    ELSE fields[1] \o <<",">> \o Join(Tail(fields))

Line1 == Join(<<s42, alice, t0, t86400, t172800>>)
Line2 == Join(<<s42, alice, t172800, t259200>>)

\* The lines ImportMulti may read from stdin in Spec.
StreamLines ==
    { Line1, Line2,
      Join(<<s42, bob, t86400, t0>>),
      Join(<<s7, alice, t0, t86399>>),
      Join(<<s7, bob>>),
      Join(<<s42, alice>>),
      Join(<<s42, alice, t0, x>>),
      Join(<<x, alice, t0>>),
      Join(<<s7, bob, I64Max>>),
      <<>> }

\* The records an NDJSON or mentions file may hold.
RawRecords ==
    { Raw(s42, alice, <<t86400, t0>>),
      Raw(s42, bob, <<t172800, t259200, t172800>>),
      Undecodable }

RECURSIVE SeqsUpTo(_, _)
SeqsUpTo(S, n) ==
    IF n = 0 THEN {<<>>}
    ELSE LET shorter == SeqsUpTo(S, n - 1)
         IN  shorter \cup {Append(q, e) : q \in {r \in shorter : Len(r) = n - 1}, e \in S}

Files == SeqsUpTo(RawRecords, MaxRecords)

\* The lines of SpecLine: every user-id text, every name text and up to MaxTs
\* timestamp texts, and the lines of one field.
IdTexts == {s42, plus7, <<>>, minus1, alice, U64Max, U64Over}
NameTexts == {alice, <<>>, t0}
TsTexts == {t0, t86399, t86400, minus1, x, <<>>, I64Max}

AllLines ==
    IdTexts \cup
    {Join(<<i, n>> \o ts) : i \in IdTexts, n \in NameTexts, ts \in SeqsUpTo(TsTexts, MaxTs)}

LookupIds == {s42, s7}

-----------------------------------------------------------------------------
(* State and commands                                                      *)

NoErr == [kind |-> "None", line |-> <<>>]

InvalidImportLine(l) == [kind |-> "InvalidImportLine", line |-> l]

ImportError == [kind |-> "Import", line |-> <<>>]

Result(cmd, status, err, id, count) ==
    [cmd |-> cmd, status |-> status, err |-> err, id |-> id, count |-> count]

\* The session of the last import command when that command was a session
\* update that succeeded; runs counts the updates in a row with that same
\* session.
NoSession == [loaded |-> FALSE, data |-> <<>>, runs |-> 0]

Init ==
    /\ store = EmptyStore
    /\ pc = "idle"
    /\ lines = <<>>
    /\ result = Result("None", "Ok", NoErr, <<>>, 0)
    /\ calls = <<>>
    /\ out = <<>>
    /\ start = EmptyStore
    /\ merged = {}
    /\ session = NoSession
    /\ nsteps = 0

\* manage ImportMulti starts: the store is opened, stdin is locked.
StartImportMulti ==
    /\ pc = "idle"
    /\ nsteps < MaxSteps
    /\ pc' = "multi"
    /\ lines' = <<>>
    /\ result' = Result("ImportMulti", "Running", NoErr, <<>>, 0)
    /\ calls' = <<>>
    /\ out' = <<>>
    /\ start' = store
    /\ session' = NoSession
    /\ UNCHANGED <<store, merged, nsteps>>

\* The loop body on the line l: insert_pair and on to the next line, or the
\* command ends with InvalidImportLine(l) or a panic.
Iteration(l) ==
    \E r \in {loop_body(l)} :
        /\ IF r.kind = "Call"
           THEN /\ store' = insert_pair(store, r.call.user_id,
                                        r.call.screen_name, r.call.dates)
                /\ calls' = Append(calls, r.call)
                /\ merged' = merged \cup {r.call}
                /\ pc' = "multi"
                /\ result' = result
           ELSE /\ pc' = "idle"
                /\ result' = Result("ImportMulti", r.kind,
                                    IF r.kind = "Err" THEN InvalidImportLine(l)
                                    ELSE NoErr, <<>>, 0)
                /\ UNCHANGED <<store, calls, merged>>
        /\ UNCHANGED <<out, start, session>>

\* ImportMulti reads the next line of stdin and runs the loop body on it.
ImportMultiLine ==
    /\ pc = "multi"
    /\ nsteps < MaxSteps
    /\ \E l \in StreamLines :
         /\ lines' = Append(lines, l)
         /\ Iteration(l)
    /\ nsteps' = nsteps + 1

\* stdin ends: ImportMulti returns Ok(()).
ImportMultiEof ==
    /\ pc = "multi"
    /\ pc' = "idle"
    /\ result' = Result("ImportMulti", "Ok", NoErr, <<>>, Len(calls))
    /\ UNCHANGED <<store, lines, calls, out, start, merged, session, nsteps>>

import_session_streaming(db, file) ==
    LET s == load(file)
        bad == {i \in 1..Len(file) : ~normalize(file[i]).ok}
        n == IF bad = {} THEN Len(file)
             ELSE (CHOOSE i \in bad : \A j \in bad : i <= j) - 1
        data == [i \in 1..n |-> normalize(file[i]).rec]
    IN  [ok |-> s.ok, data |-> data, db |-> update(db, data)]

\* Session::load_*(reader)? and then session.update(&db, UpdateMode::Range)?:
\* nothing reaches the store unless the whole input loaded.
updated(db, s) ==
    [ok |-> s.ok, data |-> s.data, db |-> IF s.ok THEN update(db, s.data) ELSE db]

\* Session::load_* on each file of Files.
Sessions == [file \in Files |-> load(file)]

import_session(db, file) == updated(db, Sessions[file])

ImportFile(cmd, file) ==
    \E r \in {import_session(store, file)} :
        /\ store' = r.db
        /\ calls' = r.data
        /\ merged' = merged \cup Range(r.data)
        /\ session' = IF r.ok
                       THEN [loaded |-> TRUE, data |-> r.data,
                             runs |-> IF session.loaded /\ session.data = r.data
                                      THEN session.runs + 1 ELSE 1]
                       ELSE NoSession
        /\ result' = Result(cmd, IF r.ok THEN "Ok" ELSE "Err",
                            IF r.ok THEN NoErr ELSE ImportError, <<>>, Len(r.data))
        /\ start' = store
        /\ lines' = <<>>
        /\ out' = <<>>
        /\ nsteps' = nsteps + 1
        /\ pc' = "idle"

\* manage ImportJson --input file
ImportJson ==
    /\ pc = "idle"
    /\ nsteps < MaxSteps
    /\ \E file \in Files : ImportFile("ImportJson", file)

\* manage ImportMentions --input file
ImportMentions ==
    /\ pc = "idle"
    /\ nsteps < MaxSteps
    /\ \E file \in Files : ImportFile("ImportMentions", file)

RECURSIVE sort_by_key_desc(_)
sort_by_key_desc(names) ==
    IF names = {} THEN <<>>
    ELSE LET m == CHOOSE a \in names : \A b \in names : ~StrLess(a, b)
         IN  <<m>> \o sort_by_key_desc(names \ {m})

\* results.sort_by_key(|(screen_name, _)| screen_name.to_string()): the
\* names of the mapping in String order.
RECURSIVE sort_by_key(_)
sort_by_key(names) ==
    IF names = {} THEN <<>>
    ELSE LET m == CHOOSE a \in names : \A b \in names : ~StrLess(b, a)
         IN  <<m>> \o sort_by_key(names \ {m})

\* The printed lines: "{screen_name}: {dates}", the dates as
\* date.to_string() in the order the store returned them.
print_line(screen_name, dates) ==
    [screen_name |-> screen_name,
     dates |-> [j \in 1..Len(dates) |-> DateToString(dates[j])]]

lookup_lines(found, results) ==
    [i \in 1..Len(results) |-> print_line(results[i], found[results[i]])]

lookup_output(found) == lookup_lines(found, sort_by_key(DOMAIN found))

\* manage LookupId id: one printed line per screen name.
LookupId ==
    /\ pc = "idle"
    /\ \E id \in LookupIds :
         /\ out' = lookup_output(lookup_by_user_id(store, id))
         /\ result' = Result("LookupId", "Ok", NoErr, id, 0)
    /\ UNCHANGED <<store, pc, lines, calls, start, merged, session, nsteps>>

stats_lines_swapped(counts) ==
    <<[label |-> "Accounts", n |-> counts[1]],
      [label |-> "Screen names", n |-> counts[2]],
      [label |-> "Pairs", n |-> counts[3]]>>

\* let (pair_count, user_id_count, screen_name_count) = db.get_counts()?;
\* and the three println!s.
stats_lines(counts) ==
    <<[label |-> "Accounts", n |-> counts[2]],
      [label |-> "Screen names", n |-> counts[3]],
      [label |-> "Pairs", n |-> counts[1]]>>

\* manage Stats
Stats ==
    /\ pc = "idle"
    /\ out' = stats_lines(get_counts(store))
    /\ result' = Result("Stats", "Ok", NoErr, <<>>, 0)
    /\ UNCHANGED <<store, pc, lines, calls, start, merged, session, nsteps>>

Next ==
    \/ StartImportMulti
    \/ ImportMultiLine
    \/ ImportMultiEof
    \/ ImportJson
    \/ ImportMentions
    \/ LookupId
    \/ Stats

Spec == Init /\ [][Next]_vars

\* SpecLine: ImportMulti has just read one line, any of AllLines, from stdin,
\* the store empty or holding a pair from an earlier import; the loop body
\* runs on that line.
PriorCalls ==
    {<<>>, <<[user_id |-> s42, screen_name |-> alice, dates |-> <<0, 1>>]>>}

InitLine ==
    /\ \E prior \in PriorCalls :
         /\ store = update(EmptyStore, prior)
         /\ start = update(EmptyStore, prior)
         /\ merged = Range(prior)
    /\ pc = "read"
    /\ \E l \in AllLines : lines = <<l>>
    /\ result = Result("ImportMulti", "Running", NoErr, <<>>, 0)
    /\ calls = <<>>
    /\ out = <<>>
    /\ session = NoSession
    /\ nsteps = 0

ProcessLine ==
    /\ pc = "read"
    /\ Iteration(Last(lines))
    /\ UNCHANGED <<lines, nsteps>>

NextLine == ProcessLine

SpecLine == InitLine /\ [][NextLine]_vars

-----------------------------------------------------------------------------
(* Properties of one ImportMulti line (SpecLine)                           *)

\* The line the loop body ran on, and its fields.
TheLine == Last(lines)
Parts == split(TheLine)
Processed == pc # "read"

\* The texts of the pools that are a u64 / an i64, by inspection.
ValidIdTexts == {s42, plus7, U64Max}
IntTexts == {t0, t86399, t86400, minus1, I64Max}

Rejected ==
    /\ pc = "idle"
    /\ result = Result("ImportMulti", "Err", InvalidImportLine(TheLine), <<>>, 0)
    /\ calls = <<>>
    /\ store = start

StrictlyAscending(q) == \A i \in 1..(Len(q) - 1) : q[i] < q[i + 1]

\* C1: the date sequence of every insert_pair call ImportMulti makes is
\* strictly ascending: sorted, and no date twice, whatever the order of the
\* line's timestamps and however many fall on one UTC day.
C1_DatesSortedNoDuplicates ==
    \A i \in 1..Len(calls) : StrictlyAscending(calls[i].dates)

\* A line with timestamps out of order, two of them on the same day, was
\* accepted with the dates 1970-01-01, 1970-01-02.
C1_Witness ==
    /\ Processed
    /\ TheLine = Join(<<s42, alice, t86400, t0, t86399>>)
    /\ calls = <<[user_id |-> s42, screen_name |-> alice, dates |-> <<0, 1>>]>>

\* C5: a line of fewer than 2 fields (the empty line too), or whose field 0
\* is no unsigned 64-bit integer, ends the command with
\* InvalidImportLine(that line, verbatim), and insert_pair is not called.
C5_ShortOrBadIdRejected ==
    (Processed /\ (Len(Parts) < 2 \/ Parts[1] \notin ValidIdTexts)) => Rejected

\* The line 18446744073709551616,alice,0 (2^64 as the id) was rejected.
C5_Witness ==
    /\ Processed
    /\ TheLine = Join(<<U64Over, alice, t0>>)
    /\ Rejected

\* C6: a timestamp field that is no integer, at any position, ends the
\* command with InvalidImportLine(the line), and insert_pair is not called.
C6_BadTimestampRejected ==
    (Processed /\ \E k \in 3..Len(Parts) : Parts[k] \notin IntTexts) => Rejected

\* C6, the part the code keeps: such a line never reaches insert_pair and
\* the store is as before, the command ending in InvalidImportLine or, when
\* an integer field before it is out of chrono's range, in a panic.
C6_BadTimestampNeverMerged ==
    (Processed /\ \E k \in 3..Len(Parts) : Parts[k] \notin IntTexts) =>
        /\ calls = <<>>
        /\ store = start
        /\ pc = "idle"
        /\ \/ Rejected
           \/ /\ result.status = "Panic"
              /\ \E j \in 3..Len(Parts) : Parts[j] = I64Max

\* C7: a line whose name field is empty is rejected, and no call of
\* insert_pair carries an empty screen name.
C7_EmptyNameRejected ==
    /\ (Processed /\ Len(Parts) >= 2 /\ Parts[2] = <<>>) => Rejected
    /\ \A i \in 1..Len(calls) : calls[i].screen_name # <<>>

\* C10: a line of exactly two fields, the first a valid id, is accepted:
\* insert_pair is called once, with no dates, every stored date set is as
\* before, and the loop goes on to the next line.
C10_NoTimestampsAccepted ==
    (Processed /\ Len(Parts) = 2 /\ Parts[1] \in ValidIdTexts) =>
        /\ pc = "multi"
        /\ result.status = "Running"
        /\ Len(calls) = 1
        /\ calls[1].screen_name = Parts[2]
        /\ calls[1].dates = <<>>
        /\ <<calls[1].user_id, calls[1].screen_name>> \in DOMAIN store
        /\ \A p \in DOMAIN store : store[p] = DatesOf(start, p)
        /\ DOMAIN start \subseteq DOMAIN store

\* The line 42,alice was accepted while (42, alice) held two dates, which
\* it still holds.
C10_Witness ==
    /\ Processed
    /\ TheLine = Join(<<s42, alice>>)
    /\ pc = "multi"
    /\ Len(calls) = 1
    /\ <<s42, alice>> \in DOMAIN start
    /\ store[<<s42, alice>>] = {0, 1}

-----------------------------------------------------------------------------
(* Properties of the commands (Spec)                                       *)

SessionCmds == {"ImportJson", "ImportMentions"}

PairOf(c) == <<c.user_id, c.screen_name>>

\* The dates the calls of the set or sequence cs submitted for the pair p.
Submitted(cs, p) == UNION {Range(c.dates) : c \in {d \in cs : PairOf(d) = p}}

\* C2, first update: after a session update every stored date set is the
\* set stored before united with the dates the session submitted for the
\* pair, and lookup lists no date twice.
C2_UnionOfBeforeAndSubmitted ==
    (result.cmd \in SessionCmds /\ result.status = "Ok") =>
        /\ DOMAIN store = DOMAIN start \cup {PairOf(c) : c \in Range(session.data)}
        /\ \A p \in DOMAIN store :
             store[p] = DatesOf(start, p) \cup Submitted(Range(session.data), p)
        /\ \A p \in DOMAIN store :
             StrictlyAscending(lookup_by_user_id(store, p[1])[p[2]])

\* C2, second update: an update with the session of the update before it
\* leaves every stored date set as it is.
C2_RerunChangesNothing ==
    (nsteps' # nsteps /\ session'.runs > 1) => store' = store

\* C2: re-running update with an identical session under Range mode is
\* idempotent: the first update stores the union of the before-state and the
\* submitted dates, without duplicates, and the second changes nothing.
C2_UpdateIdempotent ==
    [](C2_UnionOfBeforeAndSubmitted) /\ [][C2_RerunChangesNothing]_vars

\* A session with records was run twice in a row on a store that already
\* held dates, and the second run left the store as the first made it.
C2_Witness ==
    /\ session.runs = 2
    /\ session.data # <<>>
    /\ result.cmd \in SessionCmds
    /\ start = store
    /\ store # EmptyStore

\* C3, additivity: no step removes a pair or a date from the store.
C3_Additive ==
    \A p \in DOMAIN store : p \in DOMAIN store' /\ store[p] \subseteq store'[p]

FourDates ==
    { <<"1","9","7","0","-","0","1","-","0","1">>,
      <<"1","9","7","0","-","0","1","-","0","2">>,
      <<"1","9","7","0","-","0","1","-","0","3">>,
      <<"1","9","7","0","-","0","1","-","0","4">> }

\* C3, the example: 42,alice,0,86400,172800 and then 42,alice,172800,259200
\* leave (42, alice) with exactly 1970-01-01 .. 1970-01-04.
C3_Example ==
    (pc = "multi" /\ lines = <<Line1, Line2>> /\ <<s42, alice>> \notin DOMAIN start) =>
        /\ <<s42, alice>> \in DOMAIN store
        /\ {DateToString(d) : d \in store[<<s42, alice>>]} = FourDates
        /\ Cardinality(store[<<s42, alice>>]) = 4

\* C3: merging is additive: over any sequence of import commands a date
\* once stored for a pair stays stored for it, no import removes a date or
\* a pair; and the two example lines give the four dates.
C3_MergeAdditive == [][C3_Additive]_vars /\ [](C3_Example)

\* The two example lines were imported into a store without (42, alice).
C3_Witness ==
    /\ pc = "multi"
    /\ lines = <<Line1, Line2>>
    /\ <<s42, alice>> \notin DOMAIN start
    /\ store[<<s42, alice>>] = {0, 1, 2, 3}

\* C4 as claimed: in every ingestion path a command that fails leaves the
\* store exactly as it was when the command started.
C4_FailedImportLeavesStore ==
    (result.status \in {"Err", "Panic"}) => store = start

\* C4 as the code has it: a file import (ImportJson, ImportMentions) that
\* fails has merged nothing; ImportMulti merges line by line, so when it
\* fails on a line every line before it is merged, and that line is not.
C4_FailedImportAmended ==
    /\ (result.cmd \in SessionCmds /\ result.status = "Err") =>
          store = start /\ calls = <<>>
    /\ (result.cmd = "ImportMulti" /\ result.status \in {"Err", "Panic"}) =>
          /\ Len(calls) = Len(lines) - 1
          /\ \A i \in 1..Len(calls) : loop_body(lines[i]) = Outcome("Call", calls[i])
          /\ loop_body(Last(lines)).kind = result.status
          /\ store = update(start, calls)

\* ImportMulti read the first example line and then a line with a bad
\* timestamp: it failed, and the first line's dates are in the store.
C4_Witness ==
    /\ result.cmd = "ImportMulti"
    /\ result.status = "Err"
    /\ lines = <<Line1, Join(<<s42, alice, t0, x>>)>>
    /\ start = EmptyStore
    /\ store = (<<s42, alice>> :> {0, 1, 2})

\* What the calls seen so far submitted.
MergedNames(id) == {c.screen_name : c \in {d \in merged : d.user_id = id}}

\* C8: LookupId prints every name merged for the id, one per line, in the
\* order of the name text, each with all its merged dates, ascending.
C8_LookupSortedByName ==
    (result.cmd = "LookupId") =>
        /\ {out[i].screen_name : i \in 1..Len(out)} = MergedNames(result.id)
        /\ \A i \in 1..(Len(out) - 1) :
             StrLess(out[i].screen_name, out[i + 1].screen_name)
        /\ \A i \in 1..Len(out) :
             LET days == SetToSortedSeq(
                            Submitted(merged, <<result.id, out[i].screen_name>>))
             IN  out[i].dates = [j \in 1..Len(days) |-> DateToString(days[j])]

\* bob and then alice were merged for id 42 by two imports; LookupId 42
\* prints alice before bob, each with its dates.
C8_Witness ==
    /\ result.cmd = "LookupId"
    /\ result.id = s42
    /\ Len(calls) = 2
    /\ PairOf(calls[1]) = <<s42, bob>>
    /\ PairOf(calls[2]) = <<s42, alice>>
    /\ Len(out) = 2
    /\ out[1].screen_name = alice
    /\ out[2].screen_name = bob
    /\ Len(out[1].dates) = 3
    /\ Len(out[2].dates) = 2

\* C9: get_counts gives the numbers of distinct pairs, ids and names
\* merged, and Stats prints them as accounts, screen names, pairs.
C9_StatsCounts ==
    LET pairs == {PairOf(c) : c \in merged}
        expected == <<Cardinality(pairs),
                      Cardinality({p[1] : p \in pairs}),
                      Cardinality({p[2] : p \in pairs})>>
    IN  /\ get_counts(store) = expected
        /\ (result.cmd = "Stats") =>
              out = <<[label |-> "Accounts", n |-> expected[2]],
                      [label |-> "Screen names", n |-> expected[3]],
                      [label |-> "Pairs", n |-> expected[1]]>>

\* Stats after two names were merged for one id: 1 account, 2 screen
\* names, 2 pairs.
C9_Witness ==
    /\ result.cmd = "Stats"
    /\ nsteps = 2
    /\ out[1].n = 1
    /\ out[2].n = 2
    /\ out[3].n = 2

====
